---- MODULE Spec2Model ----
(***************************************************************************)
(* replicate-images: the content-addressed cache (internal/cache) and the  *)
(* single-prompt and batch commands (cmd/replicate-images/main.go).        *)
(*                                                                         *)
(* The disk (cache.json and the image files of the output directory)       *)
(* outlives a command; everything else is the state of one process.  A     *)
(* batch run is the main goroutine plus one goroutine per pending item.    *)
(***************************************************************************)
EXTENDS Integers, Sequences, FiniteSets, TLC

\* ---------------------------------------------------------------- bounds
MaxItems   == 2   \* longest batch file
MaxConc    == 2   \* largest --concurrency
MaxEntries == 2   \* largest store of the cache package on its own

\* ------------------------------------------------------- program constants
ExitSuccess      == 0
ExitPartialFail  == 1
ExitTotalFail    == 2
ExitInvalidInput == 3

DefaultModel == "bc"

\* The entries a batch file may hold; model "" means "not given".  With the
\* default model, ("a","bc") and ("ab","c") are two different pairs whose
\* concatenations are the same byte sequence.
PromptEntries ==
  { [prompt |-> "a",  model |-> ""],
    [prompt |-> "ab", model |-> "c"],
    [prompt |-> "a",  model |-> "c"] }

RECURSIVE SeqsUpTo(_, _)
SeqsUpTo(S, n) ==
  IF n = 0 THEN { <<>> }
  ELSE LET shorter == SeqsUpTo(S, n - 1)
       IN  shorter \cup { Append(s, x) : s \in { t \in shorter : Len(t) = n - 1 }, x \in S }

\* What os.ReadFile + yaml.Unmarshal make of the batch file.
BatchInputs ==
  { [kind |-> "unreadable", prompts |-> <<>>], [kind |-> "malformed", prompts |-> <<>>] }
    \cup { [kind |-> "parsed", prompts |-> s] : s \in SeqsUpTo(PromptEntries, MaxItems) }

VARIABLES
  cacheFile,        \* cache.json: [state: absent | valid | corrupt, entries]
  files,            \* names of the image files present in the output directory
  image,            \* what each image file holds: a whole image and the pair it
                    \* was generated for, or an image cut short
  dir,              \* the output directory exists
  cmd,              \* the running command: none | generate | batch
  pc,               \* position of the main goroutine
  flagModel, flagNoCache, flagConcurrency, flagJSON, flagDryRun,
  arg,              \* runGenerate: args[0]
  pf,               \* runBatch: pf.Prompts
  c,                \* c.Entries of the loaded cache
  idx,              \* runBatch: position of the categorize loop
  toGenerate,       \* runBatch: toGenerate (src: position in pf, not in the code)
  cachedCount,
  next,             \* runBatch: position of the dispatch loop
  sem,              \* number of tokens in the channel sem
  wg,               \* counter of the WaitGroup
  mu,               \* holder of the mutex, 0 when free
  errored,
  w,                \* the goroutines: [pc, entries read, counter read]
  exitCode,
  invoked,          \* history: calls of GenerateImage per pending item
  report,           \* history: result records emitted per item of the input
  saveCalls,        \* history: calls of c.Save in this command
  saveOK,           \* history: c.Save returned nil
  hits,             \* history: the items that were cache hits when the run started
  failed,           \* history: the step at which the command returned an error
  last,             \* history: the last call of Upsert made on its own
  fsys,             \* the cache package on its own: the cache file of each directory
  store,            \* the cache package on its own: the *Cache at hand, <<>> when nil
  ret,              \* the cache package on its own: the last call and what it returned
  fp,               \* Hash on its own: per argument pair, the calls made and their results
  vr,               \* runValidate: what was read and the ValidationResult
  ex                \* extractImageURL on its own: the output given and what it returned

disk   == <<cacheFile, files, image, dir>>
flags  == <<flagModel, flagNoCache, flagConcurrency, flagJSON, flagDryRun>>
input  == <<arg, pf>>
loopv  == <<idx, toGenerate, cachedCount, next>>
syncv  == <<sem, wg, mu>>
lib    == <<fsys, store, ret, fp, vr, ex>>
mainv  == <<disk, cmd, pc, flags, input, c, loopv, syncv, errored, w, exitCode,
            invoked, report, saveCalls, saveOK, hits, failed, last>>
vars   == <<cacheFile, files, image, dir, cmd, pc, flagModel, flagNoCache, flagConcurrency,
            flagJSON, flagDryRun, arg, pf, c, idx, toGenerate, cachedCount, next,
            sem, wg, mu, errored, w, exitCode, invoked, report, saveCalls, saveOK,
            hits, failed, last, fsys, store, ret, fp, vr, ex>>

\* ------------------------------------------------------------ internal/cache

\* Hash: sha256 over the bytes of prompt followed by the bytes of model.  The
\* digest is a function of that byte sequence, which stands for it here.
Hash(prompt, model) == prompt \o model

FileName(hash) == hash \o ".webp"

\* Lookup whose loop starts one entry too late.
LookupSkipsFirst(entries, hash) ==
  IF \E i \in 2..Len(entries) : entries[i].hash = hash
    THEN CHOOSE i \in 2..Len(entries) :
           /\ entries[i].hash = hash
           /\ \A j \in 2..(i - 1) : entries[j].hash # hash
    ELSE 0

\* Lookup: the first entry with that hash; 0 stands for nil.
Lookup(entries, hash) ==
  IF \E i \in 1..Len(entries) : entries[i].hash = hash
    THEN CHOOSE i \in 1..Len(entries) :
           /\ entries[i].hash = hash
           /\ \A j \in 1..(i - 1) : entries[j].hash # hash
    ELSE 0

\* An entry whose hash leaves the model out.
NewEntryHashesPrompt(prompt, model, outputFile) ==
  [hash |-> Hash(prompt, ""), prompt |-> prompt, model |-> model,
   outputFile |-> outputFile]

\* Add: the entry of a pair, with the hash computed from its prompt and model.
NewEntry(prompt, model, outputFile) ==
  [hash |-> Hash(prompt, model), prompt |-> prompt, model |-> model,
   outputFile |-> outputFile]

\* Upsert with the duplicate-entry defect: always appends (Cache.Add).
UpsertAppends(entries, prompt, model, outputFile) ==
  Append(entries, NewEntry(prompt, model, outputFile))

\* Upsert: replaces the output file name of the entry with that fingerprint,
\* appends a new entry when there is none.
Upsert(entries, prompt, model, outputFile) ==
  LET i == Lookup(entries, Hash(prompt, model))
  IN  IF i # 0
        THEN [entries EXCEPT ![i].outputFile = outputFile]
        ELSE Append(entries, NewEntry(prompt, model, outputFile))

\* A load that takes an unparsable file for an empty cache.
LoadNeverFails == FALSE

\* Load: an absent file is an empty cache, an unparsable one is an error.
LoadFails == cacheFile.state = "corrupt"
Load == IF cacheFile.state = "valid" THEN cacheFile.entries ELSE <<>>

\* A save that leaves out the last entry.
SavedWithoutLast(entries) ==
  [state |-> "valid", entries |-> SubSeq(entries, 1, Len(entries) - 1)]

\* Save, when os.WriteFile succeeds.
Saved(entries) == [state |-> "valid", entries |-> entries]

\* os.WriteFile truncates the file before writing: when it fails the file is
\* as it was (the open failed) or is cut short (the write failed).
SaveFailed == { cacheFile, [state |-> "corrupt", entries |-> <<>>] }

\* ------------------------------------- internal/cache, byte by byte
\* Strings are sequences of bytes and the cache file holds the text that
\* json.MarshalIndent wrote, so that what Save writes and what Load reads
\* back are two conversions.

Dirs == {"out", "img"}

\* filepath.Join(outputDir, CacheFileName)
Join(outputDir) == outputDir \o "/cache.json"

Paths == { Join(d) : d \in Dirs }

\* The bytes of a prompt: the letter a, the double quote, and 0xFF, which is
\* no valid UTF-8.
PromptBytes == { <<97>>, <<34>>, <<255>> }
ModelBytes  == <<98>>
FileBytes   == <<102>>

\* hex.EncodeToString: two digits 0-9a-f per byte.
HexDigit(n) == IF n < 10 THEN 48 + n ELSE 87 + n
RECURSIVE HexString(_)
HexString(b) ==
  IF b = <<>> THEN <<>>
  ELSE <<HexDigit(Head(b) \div 16), HexDigit(Head(b) % 16)>> \o HexString(Tail(b))

\* h.Write([]byte(prompt)); h.Write([]byte(model)): the bytes the digest is
\* computed over.
Written(prompt, model) == prompt \o model

\* h.Sum(nil): 32 bytes that depend on the written bytes and on nothing else.
\* SHA-256 itself is not computed; this sum stands for it.
RECURSIVE Mix(_, _)
Mix(b, acc) ==
  IF b = <<>> THEN acc ELSE Mix(Tail(b), (acc * 31 + Head(b) + 7) % 65521)
Sum256(b) == [i \in 1..32 |-> (Mix(b, Len(b) + 1) * i + i * i) % 256]

\* A Hash that reads the store at hand.
HashSalted(prompt, model) ==
  SubSeq(HexString(Sum256(Written(prompt, model)
                            \o IF store = <<>> THEN <<>> ELSE <<Len(store[1].entries)>>)),
         1, 16)

\* Hash(prompt, model), byte by byte: the first 16 of the 64 hex digits.
HashBytes(prompt, model) ==
  SubSeq(HexString(Sum256(Written(prompt, model))), 1, 16)

\* The argument pairs of the calls of Hash on its own: ("a","bc"), ("ab","c")
\* and ("a","c").
HashArgs == { <<<<97>>, <<98, 99>>>>, <<<<97, 98>>, <<99>>>>, <<<<97>>, <<99>>>> }
MaxCalls == 2
NoHashCalls == [a \in HashArgs |-> [n |-> 0, out |-> {}]]

\* encoding/json writes a string, character by character: a quote or a
\* backslash is escaped with a backslash, the three bytes EF BF BD are the
\* character U+FFFD, and a byte that starts no valid UTF-8 is replaced by
\* U+FFFD.
RECURSIVE EncodeString(_)
EncodeString(b) ==
  IF b = <<>> THEN <<>>
  ELSE IF Len(b) >= 3 /\ SubSeq(b, 1, 3) = <<239, 191, 189>>
    THEN <<65533>> \o EncodeString(SubSeq(b, 4, Len(b)))
  ELSE LET h == Head(b)
       IN  (IF h = 34 \/ h = 92 THEN <<92, h>>
            ELSE IF h >= 128 THEN <<65533>>
            ELSE <<h>>) \o EncodeString(Tail(b))

\* encoding/json reads a string: the character after a backslash is taken as
\* it is, U+FFFD becomes its three bytes of UTF-8.
RECURSIVE DecodeString(_)
DecodeString(t) ==
  IF t = <<>> THEN <<>>
  ELSE IF Head(t) = 92 /\ Len(t) >= 2
         THEN <<t[2]>> \o DecodeString(Tail(Tail(t)))
  ELSE IF Head(t) = 65533
         THEN <<239, 191, 189>> \o DecodeString(Tail(t))
  ELSE <<Head(t)>> \o DecodeString(Tail(t))

\* json.MarshalIndent(c): the exported field Entries; path is not written.
MarshalIndent(entries) ==
  [i \in 1..Len(entries) |->
     [hash        |-> EncodeString(entries[i].hash),
      prompt      |-> EncodeString(entries[i].prompt),
      model       |-> EncodeString(entries[i].model),
      output_file |-> EncodeString(entries[i].outputFile),
      created_at  |-> entries[i].createdAt]]

\* json.Unmarshal(data, c)
Unmarshal(data) ==
  [i \in 1..Len(data) |->
     [hash       |-> DecodeString(data[i].hash),
      prompt     |-> DecodeString(data[i].prompt),
      model      |-> DecodeString(data[i].model),
      outputFile |-> DecodeString(data[i].output_file),
      createdAt  |-> data[i].created_at]]

NoFile      == [kind |-> "absent", data |-> <<>>]
Garbage     == [kind |-> "garbage", data |-> <<>>]
JSONFile(d) == [kind |-> "json", data |-> d]

\* A load that resets an unparsable file.
LoadDirResets(outputDir) ==
  IF fsys[Join(outputDir)].kind = "json"
    THEN [c |-> <<[entries |-> Unmarshal(fsys[Join(outputDir)].data),
                   path |-> Join(outputDir)]>>, err |-> FALSE]
    ELSE [c |-> <<[entries |-> <<>>, path |-> Join(outputDir)]>>, err |-> FALSE]

\* Load(outputDir): the store and the error it returns.
LoadDir(outputDir) ==
  LET path == Join(outputDir)
  IN  IF fsys[path].kind = "absent"
        THEN [c |-> <<[entries |-> <<>>, path |-> path]>>, err |-> FALSE]
      ELSE IF fsys[path].kind = "garbage"
        THEN [c |-> <<>>, err |-> TRUE]
      ELSE [c |-> <<[entries |-> Unmarshal(fsys[path].data), path |-> path]>>,
            err |-> FALSE]

NoRet == [op |-> "none", err |-> FALSE, path |-> "", seen |-> "", was |-> <<>>]

\* ------------------------------------------------------------ internal/client
\* The output of a prediction is what encoding/json makes of the response: a
\* string, a number, null, a list of outputs, or an object.

MaxDepth == 2   \* deepest nesting of lists in an output

Str(x)  == [t |-> "string", s |-> x]
Num     == [t |-> "number"]
Null    == [t |-> "null"]
List(x) == [t |-> "list", items |-> x]
Obj(f)  == [t |-> "object", fields |-> f]

Atoms == {Str("u1"), Str("u2"), Num, Null}

\* The objects: at most two fields, each a string, a number or a list.
FieldNames  == {"url", "image", "output", "uri", "href"}
FieldValues == {Str("u1"), Num, List(<<Str("u1")>>)}
Objects ==
  { Obj(f) : f \in UNION { [K -> FieldValues] :
                             K \in { S \in SUBSET FieldNames : Cardinality(S) <= 2 } } }

\* The outputs with lists nested d deep; a list has up to two elements.
RECURSIVE Outputs(_)
Outputs(d) ==
  IF d = 0 THEN Atoms \cup Objects
  ELSE LET inner == Outputs(d - 1)
       IN  inner \cup {List(<<>>)}
                 \cup { List(<<x>>) : x \in inner }
                 \cup { List(<<x, Str("u2")>>) : x \in inner }

\* A list of field names that lacks all but the first.
KnownFieldsOnlyURL == <<"url">>

\* The field names tried for an object, in this order.
KnownFields == <<"url", "image", "output", "uri">>

\* The loop over the field names from position n on: the first field that is
\* present and holds a string.
RECURSIVE FirstField(_, _)
FirstField(f, n) ==
  IF n > Len(KnownFields) THEN [url |-> "", err |-> TRUE, calls |-> 1]
  ELSE IF KnownFields[n] \in DOMAIN f /\ f[KnownFields[n]].t = "string"
    THEN [url |-> f[KnownFields[n]].s, err |-> FALSE, calls |-> 1]
  ELSE FirstField(f, n + 1)

\* extractImageURL(output): the URL, the error, and the calls it took.
RECURSIVE extractImageURL(_)
extractImageURL(v) ==
  IF v.t = "string" THEN [url |-> v.s, err |-> FALSE, calls |-> 1]
  ELSE IF v.t = "list"
    THEN IF Len(v.items) = 0 THEN [url |-> "", err |-> TRUE, calls |-> 1]
         ELSE [extractImageURL(v.items[1]) EXCEPT !.calls = @ + 1]
  ELSE IF v.t = "object" THEN FirstField(v.fields, 1)
  ELSE [url |-> "", err |-> TRUE, calls |-> 1]

NoExtract == [op |-> "none", input |-> Null, out |-> [url |-> "", err |-> FALSE, calls |-> 0]]

\* ------------------------------------------------------------------ main.go

NoSummary == [total |-> 0, unique |-> 0, duplicates |-> 0, empty |-> 0]
NoResult  == [kind |-> "none", valid |-> FALSE, errors |-> <<>>, warnings |-> <<>>,
              summary |-> NoSummary]

ResolveModel(p) == IF p.model = "" THEN flagModel ELSE p.model

\* A cache check that does not look for the file.
IsHitNoStat(prompt, model) ==
  /\ ~flagNoCache
  /\ Lookup(c, Hash(prompt, model)) # 0

\* A cache check that looks for the file and not for the entry.
IsHitIgnoresEntry(prompt, model) ==
  /\ ~flagNoCache
  /\ FileName(Hash(prompt, model)) \in files

\* A cache check that does not look at --no-cache.
IsHitIgnoresBypass(prompt, model) ==
  LET i == Lookup(c, Hash(prompt, model))
  IN  i # 0 /\ c[i].outputFile \in files

\* The cache check of runGenerate and runBatch: an entry and its file on disk.
IsHit(prompt, model) ==
  /\ ~flagNoCache
  /\ LET i == Lookup(c, Hash(prompt, model))
     IN  i # 0 /\ c[i].outputFile \in files

NoWorkers == [k \in 1..MaxItems |-> [pc |-> "idle", snap |-> <<>>, n |-> 0]]
NoCalls   == [k \in 1..MaxItems |-> 0]
NoReports == [i \in 1..MaxItems |-> <<>>]

NoCall    == [op |-> "none", prompt |-> "", model |-> "", file |-> "", old |-> ""]

\* The content of an image file: the whole image generated for a pair, or an
\* image cut short.
Whole(prompt, model) == [whole |-> TRUE, prompt |-> prompt, model |-> model]
CutShort             == [whole |-> FALSE, prompt |-> "", model |-> ""]

\* os.WriteFile(path, data, 0644): the file is created or truncated, then
\* written.
WriteFile(f, content) ==
  /\ files' = files \cup {f}
  /\ image' = [g \in files \cup {f} |-> IF g = f THEN content ELSE image[g]]

\* The files left cut short by writes that did not come to their end.
CutFiles(cut) ==
  /\ files' = files \cup cut
  /\ image' = [g \in files \cup cut |-> IF g \in cut THEN CutShort ELSE image[g]]

\* The cache file holds an entry for the pair and the entry's file exists.
OnDisk(prompt, model) ==
  \E i \in 1..Len(cacheFile.entries) :
    /\ cacheFile.entries[i].hash = Hash(prompt, model)
    /\ cacheFile.entries[i].outputFile \in files

\* Output that drops the error records.
EmitDropsErrors(i, status, prompt, model) ==
  report' = [report EXCEPT ![i] =
               IF status = "error" THEN @
               ELSE Append(@, [status |-> status, prompt |-> prompt,
                               hash |-> Hash(prompt, model)])]

\* A result record (GenerateResult): a JSON record with --json, a line
\* otherwise.
Emit(i, status, prompt, model) ==
  report' = [report EXCEPT ![i] =
               Append(@, [status |-> status, prompt |-> prompt,
                          hash |-> Hash(prompt, model)])]

\* The statuses of the records emitted for item i, in order.
Statuses(i) == [j \in 1..Len(report[i]) |-> report[i][j].status]

Init ==
  /\ cacheFile = [state |-> "absent", entries |-> <<>>]
  /\ files = {} /\ image = <<>> /\ dir = FALSE
  /\ cmd = "none" /\ pc = "idle"
  /\ flagModel = DefaultModel /\ flagNoCache = FALSE
  /\ flagConcurrency = 1 /\ flagJSON = FALSE /\ flagDryRun = FALSE
  /\ arg = "" /\ pf = <<>> /\ c = <<>>
  /\ idx = 0 /\ toGenerate = <<>> /\ cachedCount = 0 /\ next = 0
  /\ sem = 0 /\ wg = 0 /\ mu = 0 /\ errored = 0
  /\ w = NoWorkers
  /\ exitCode = ExitSuccess
  /\ invoked = NoCalls /\ report = NoReports /\ saveCalls = 0
  /\ saveOK = FALSE /\ hits = {} /\ failed = ""
  /\ last = NoCall
  /\ fsys = [p \in Paths |-> NoFile] /\ store = <<>> /\ ret = NoRet
  /\ fp = NoHashCalls /\ vr = NoResult /\ ex = NoExtract

\* A run that creates the output directory with --dry-run too.
MakesDirAlways(dry) == TRUE

\* os.MkdirAll(flagOutput) is called unless the run is a dry run.
MakesDir(dry) == ~dry

\* A new process: the flags are parsed, nothing else is done yet.
Fresh(command, model, noCache, conc, json, dry) ==
  /\ pc = "idle"
  /\ cmd' = command
  /\ flagModel' = model /\ flagNoCache' = noCache
  /\ flagConcurrency' = conc /\ flagJSON' = json /\ flagDryRun' = dry
  /\ UNCHANGED <<cacheFile, files, image, next, syncv, errored, w, invoked,
                 saveCalls, saveOK, last, lib>>

\* ------------------------------------------------------------------ runBatch

\* runBatch up to the categorize loop: read and parse the file, create the
\* output directory (not for a dry run), load the cache.
StartBatchOf(inputs) ==
  \E in \in inputs, noCache \in BOOLEAN, conc \in 1..MaxConc,
     json \in {TRUE}, dry \in BOOLEAN, mkdirOK \in BOOLEAN :
    /\ Fresh("batch", DefaultModel, noCache, conc, json, dry)
    /\ arg' = "" /\ report' = NoReports
    /\ UNCHANGED <<toGenerate, cachedCount>>
    /\ dir' = (dir \/ (in.kind = "parsed" /\ Len(in.prompts) > 0
                         /\ MakesDir(dry) /\ mkdirOK))
    /\ hits' = { i \in 1..Len(in.prompts) :
                   OnDisk(in.prompts[i].prompt,
                          IF in.prompts[i].model = "" THEN DefaultModel
                          ELSE in.prompts[i].model) }
    /\ IF in.kind # "parsed" \/ Len(in.prompts) = 0
         THEN /\ pc' = "done" /\ exitCode' = ExitInvalidInput /\ failed' = "input"
              /\ pf' = <<>> /\ c' = <<>> /\ idx' = 0
         ELSE IF (MakesDir(dry) /\ ~mkdirOK) \/ LoadFails
           THEN /\ pc' = "done" /\ exitCode' = ExitPartialFail
                /\ failed' = IF MakesDir(dry) /\ ~mkdirOK THEN "mkdir" ELSE "load"
                /\ pf' = in.prompts /\ c' = <<>> /\ idx' = 0
           ELSE /\ pc' = "categorize" /\ exitCode' = ExitSuccess /\ failed' = ""
                /\ pf' = in.prompts /\ c' = Load /\ idx' = 1

StartBatch == StartBatchOf(BatchInputs)

\* One iteration of the categorize loop: a hit is counted and reported, a
\* miss is appended to toGenerate.  A dry run collects the records of hits
\* and misses in dryPrompts, which it prints at its end.
Categorize ==
  /\ cmd = "batch" /\ pc = "categorize" /\ idx <= Len(pf)
  /\ LET p     == pf[idx]
         model == ResolveModel(p)
     IN  IF IsHit(p.prompt, model)
           THEN /\ cachedCount' = cachedCount + 1
                /\ Emit(idx, "cached", p.prompt, model)
                /\ UNCHANGED toGenerate
           ELSE /\ toGenerate' = Append(toGenerate,
                                   [prompt |-> p.prompt, model |-> model, src |-> idx])
                /\ IF flagDryRun THEN Emit(idx, "pending", p.prompt, model)
                                 ELSE UNCHANGED report
                /\ UNCHANGED cachedCount
  /\ idx' = idx + 1
  /\ UNCHANGED <<disk, cmd, pc, flags, input, c, next, syncv, errored, w,
                 exitCode, invoked, saveCalls, saveOK, hits, failed, last, lib>>

\* A categorize loop left after its first iteration.
CategorizeDoneAfterFirst == idx > 1

\* The categorize loop has run over every prompt.
CategorizeDone == idx > Len(pf)

\* A dry run ends with its summary; a run with nothing to generate returns
\* nil, without a save.
NothingToDo ==
  /\ cmd = "batch" /\ pc = "categorize" /\ CategorizeDone
  /\ flagDryRun \/ Len(toGenerate) = 0
  /\ pc' = "done" /\ exitCode' = ExitSuccess
  /\ UNCHANGED <<disk, cmd, flags, input, c, loopv, syncv, errored, w, invoked,
                 report, saveCalls, saveOK, hits, failed, last, lib>>

\* client.New: fails when the API token is not in the environment.
NewClient ==
  \E ok \in BOOLEAN :
    /\ cmd = "batch" /\ pc = "categorize" /\ CategorizeDone
    /\ ~flagDryRun /\ Len(toGenerate) > 0
    /\ IF ok THEN /\ pc' = "dispatch" /\ next' = 1 /\ UNCHANGED <<exitCode, failed>>
             ELSE /\ pc' = "done" /\ exitCode' = ExitPartialFail /\ failed' = "client"
                  /\ UNCHANGED next
    /\ UNCHANGED <<disk, cmd, flags, input, c, idx, toGenerate, cachedCount,
                   syncv, errored, w, invoked, report, saveCalls, saveOK,
                   hits, last, lib>>

\* A channel one token too large.
SemCapOneMore == flagConcurrency + 1

\* Capacity of the channel sem.
SemCap == flagConcurrency

\* A dispatch loop that starts the pending items in any order.
DispatchAnyOrder ==
  \E k \in 1..Len(toGenerate) :
    /\ cmd = "batch" /\ pc = "dispatch" /\ next <= Len(toGenerate)
    /\ w[k].pc = "idle"
    /\ sem < SemCap
    /\ wg' = wg + 1 /\ sem' = sem + 1
    /\ w' = [w EXCEPT ![k].pc = "spawned"]
    /\ next' = next + 1
    /\ UNCHANGED <<disk, cmd, pc, flags, input, c, idx, toGenerate, cachedCount,
                   mu, errored, exitCode, invoked, report, saveCalls, saveOK, hits, failed, last, lib>>

\* One iteration of the dispatch loop: wg.Add(1), a token into sem (blocks
\* while the channel is full), then the go statement.
Dispatch ==
  /\ cmd = "batch" /\ pc = "dispatch" /\ next <= Len(toGenerate)
  /\ sem < SemCap
  /\ wg' = wg + 1 /\ sem' = sem + 1
  /\ w' = [w EXCEPT ![next].pc = "spawned"]
  /\ next' = next + 1
  /\ UNCHANGED <<disk, cmd, pc, flags, input, c, idx, toGenerate, cachedCount,
                 mu, errored, exitCode, invoked, report, saveCalls, saveOK, hits, failed, last, lib>>

\* A dispatch loop that stops at the first error it sees.
DispatchStopsOnError == next > Len(toGenerate) \/ errored > 0

\* The dispatch loop has run over every pending item.
DispatchDone == next > Len(toGenerate)

EndDispatch ==
  /\ cmd = "batch" /\ pc = "dispatch" /\ DispatchDone
  /\ pc' = "wait"
  /\ UNCHANGED <<disk, cmd, flags, input, c, loopv, syncv, errored, w, exitCode,
                 invoked, report, saveCalls, saveOK, hits, failed, last, lib>>

\* A wait that never blocks.
WaitNeverBlocks == TRUE

\* wg.Wait returns when the counter is zero.
WaitReturns == wg = 0

Wait ==
  /\ cmd = "batch" /\ pc = "wait" /\ WaitReturns
  /\ pc' = "save"
  /\ UNCHANGED <<disk, cmd, flags, input, c, loopv, syncv, errored, w, exitCode,
                 invoked, report, saveCalls, saveOK, hits, failed, last, lib>>

\* The exit code of a batch whose cache was saved.
BatchOutcome(nErrored, nPending) ==
  IF nErrored > 0
    THEN IF nErrored = nPending THEN ExitTotalFail ELSE ExitPartialFail
    ELSE ExitSuccess

\* c.Save and the return of runBatch.  An error that is no ExitError leaves
\* main with ExitPartialFail.
SaveBatch ==
  \E ok \in BOOLEAN :
    /\ cmd = "batch" /\ pc = "save"
    /\ saveCalls' = saveCalls + 1 /\ saveOK' = ok
    /\ failed' = IF ok THEN failed ELSE "save"
    /\ IF ok THEN /\ cacheFile' = Saved(c)
                  /\ exitCode' = BatchOutcome(errored, Len(toGenerate))
             ELSE /\ cacheFile' \in SaveFailed
                  /\ exitCode' = ExitPartialFail
    /\ pc' = "done"
    /\ UNCHANGED <<files, image, dir, cmd, flags, input, c, loopv, syncv, errored, w, invoked,
                   report, hits, last, lib>>

\* ------------------------------------------------ the goroutine of one item
\* k is the position of the item in toGenerate.

Item(k) == toGenerate[k]
ItemHash(k) == Hash(Item(k).prompt, Item(k).model)
ItemFile(k) == FileName(ItemHash(k))

wOther == <<cmd, pc, flags, input, loopv, exitCode, saveCalls, saveOK, hits, failed, last, lib>>

\* hash, filename, outputPath, then the call of rc.GenerateImage.
CallGenerate(k) ==
  /\ w[k].pc = "spawned"
  /\ w' = [w EXCEPT ![k].pc = "invoking"]
  /\ invoked' = [invoked EXCEPT ![k] = @ + 1]
  /\ UNCHANGED <<disk, wOther, c, syncv, errored, report>>

\* rc.GenerateImage returns: the image, or an error (prediction failed,
\* unrecognized output, download failed).
GenerateReturns(k) ==
  \E ok \in BOOLEAN :
    /\ w[k].pc = "invoking"
    /\ w' = [w EXCEPT ![k].pc = IF ok THEN "writing" ELSE "failed"]
    /\ UNCHANGED <<disk, wOther, c, syncv, errored, invoked, report>>

\* convert.SaveWebP returns: the file is written, or an error (the image
\* could not be converted or the file not be opened: no file is touched; the
\* write failed: the file is cut short).
SaveWebPReturns(k) ==
  \E ok \in BOOLEAN :
    /\ w[k].pc = "writing"
    /\ IF ok THEN /\ WriteFile(ItemFile(k), Whole(Item(k).prompt, Item(k).model))
                  /\ w' = [w EXCEPT ![k].pc = "written"]
             ELSE /\ \E cut \in SUBSET {ItemFile(k)} : CutFiles(cut)
                  /\ w' = [w EXCEPT ![k].pc = "failed"]
    /\ UNCHANGED <<cacheFile, dir, wOther, c, syncv, errored, invoked, report>>

\* A lock that never blocks.
LockNeverBlocks == TRUE

\* mu.Lock returns when the mutex is free.
LockFree == mu = 0

\* Error branch: mu.Lock, the error record, the read of errored.
LockFailed(k) ==
  /\ w[k].pc = "failed" /\ LockFree
  /\ mu' = k
  /\ Emit(Item(k).src, "error", Item(k).prompt, Item(k).model)
  /\ w' = [w EXCEPT ![k].pc = "counting", ![k].n = errored]
  /\ UNCHANGED <<disk, wOther, c, sem, wg, errored, invoked>>

\* An error branch that returns without the deferred release of its slot.
CountFailedKeepsSlot(k) ==
  /\ w[k].pc = "counting"
  /\ errored' = w[k].n + 1
  /\ mu' = 0
  /\ w' = [w EXCEPT ![k].pc = "released", ![k].n = 0]
  /\ UNCHANGED <<disk, wOther, c, sem, wg, invoked, report>>

\* Error branch: the write of errored++, mu.Unlock, return.
CountFailed(k) ==
  /\ w[k].pc = "counting"
  /\ errored' = w[k].n + 1
  /\ mu' = 0
  /\ w' = [w EXCEPT ![k].pc = "returning", ![k].n = 0]
  /\ UNCHANGED <<disk, wOther, c, sem, wg, invoked, report>>

\* Success branch: mu.Lock, and c.Upsert reads c.Entries.
LockWritten(k) ==
  /\ w[k].pc = "written" /\ LockFree
  /\ mu' = k
  /\ w' = [w EXCEPT ![k].pc = "upserting", ![k].snap = c]
  /\ UNCHANGED <<disk, wOther, c, sem, wg, errored, invoked, report>>

\* Success branch: c.Upsert writes c.Entries, the generated record,
\* mu.Unlock.
UpsertWritten(k) ==
  /\ w[k].pc = "upserting"
  /\ c' = Upsert(w[k].snap, Item(k).prompt, Item(k).model, ItemFile(k))
  /\ Emit(Item(k).src, "generated", Item(k).prompt, Item(k).model)
  /\ mu' = 0
  /\ w' = [w EXCEPT ![k].pc = "returning", ![k].snap = <<>>]
  /\ UNCHANGED <<disk, wOther, sem, wg, errored, invoked>>

\* A goroutine that returns without taking its token out of sem.
ReleaseSemKeepsSlot(k) ==
  /\ w[k].pc = "returning"
  /\ w' = [w EXCEPT ![k].pc = "released"]
  /\ UNCHANGED <<disk, wOther, c, sem, wg, mu, errored, invoked, report>>

\* Deferred: a token out of sem.
ReleaseSem(k) ==
  /\ w[k].pc = "returning"
  /\ sem' = sem - 1
  /\ w' = [w EXCEPT ![k].pc = "released"]
  /\ UNCHANGED <<disk, wOther, c, wg, mu, errored, invoked, report>>

\* Deferred: wg.Done.
WgDone(k) ==
  /\ w[k].pc = "released"
  /\ wg' = wg - 1
  /\ w' = [w EXCEPT ![k].pc = "done"]
  /\ UNCHANGED <<disk, wOther, c, sem, mu, errored, invoked, report>>

\* A goroutine that also registers an item that failed.
WorkerRegistersFailed(k) ==
  \/ CallGenerate(k)
  \/ GenerateReturns(k)
  \/ SaveWebPReturns(k)
  \/ LockFailed(k)
  \/ CountFailed(k)
  \/ LockWritten(k)
  \/ UpsertWritten(k)
  \/ ReleaseSem(k)
  \/ WgDone(k)
  \/ /\ w[k].pc = "failed" /\ LockFree
     /\ mu' = k
     /\ w' = [w EXCEPT ![k].pc = "upserting", ![k].snap = c]
     /\ UNCHANGED <<disk, wOther, c, sem, wg, errored, invoked, report>>

Worker(k) ==
  \/ CallGenerate(k)
  \/ GenerateReturns(k)
  \/ SaveWebPReturns(k)
  \/ LockFailed(k)
  \/ CountFailed(k)
  \/ LockWritten(k)
  \/ UpsertWritten(k)
  \/ ReleaseSem(k)
  \/ WgDone(k)

\* --------------------------------------------------------------- runGenerate

\* The cache entries a single prompt may name: prompt and --model.
GenerateInputs ==
  { [prompt |-> p.prompt, model |-> IF p.model = "" THEN DefaultModel ELSE p.model] :
      p \in PromptEntries }

\* runGenerate up to the cache check.  A dry run loads the cache, reports
\* the status of the prompt with the two counts of its DryRunResult (here
\* the length of toGenerate and cachedCount) and returns.
StartGenerate ==
  \E in \in GenerateInputs, noCache \in BOOLEAN, json \in BOOLEAN,
     dry \in BOOLEAN, mkdirOK \in BOOLEAN :
    /\ Fresh("generate", in.model, noCache, 1, json, dry)
    /\ arg' = in.prompt /\ pf' = <<>> /\ idx' = 0
    /\ hits' = { i \in {1} : OnDisk(in.prompt, in.model) }
    /\ dir' = (dir \/ (MakesDir(dry) /\ mkdirOK))
    /\ IF (MakesDir(dry) /\ ~mkdirOK) \/ LoadFails
         THEN /\ pc' = "done" /\ exitCode' = ExitPartialFail /\ c' = <<>>
              /\ failed' = IF MakesDir(dry) /\ ~mkdirOK THEN "mkdir" ELSE "load"
              /\ report' = NoReports
              /\ UNCHANGED <<toGenerate, cachedCount>>
         ELSE /\ failed' = "" /\ exitCode' = ExitSuccess /\ c' = Load
              /\ pc' = IF dry THEN "done" ELSE "check"
              /\ IF ~dry
                   THEN /\ report' = NoReports
                        /\ UNCHANGED <<toGenerate, cachedCount>>
                   ELSE LET i      == Lookup(Load, Hash(in.prompt, in.model))
                            cached == ~noCache /\ i # 0 /\ Load[i].outputFile \in files
                        IN  /\ report' = [NoReports EXCEPT ![1] =
                                  <<[status |-> IF cached THEN "cached" ELSE "pending",
                                     prompt |-> in.prompt,
                                     hash   |-> Hash(in.prompt, in.model)]>>]
                            /\ cachedCount' = IF cached THEN 1 ELSE 0
                            /\ toGenerate' =
                                 IF cached THEN <<>>
                                 ELSE <<[prompt |-> in.prompt, model |-> in.model,
                                         src |-> 1]>>

\* The cache check: a hit is reported and ends the run; a miss creates the
\* client and calls rc.GenerateImage.
CheckCache ==
  \E clientOK \in BOOLEAN :
    /\ cmd = "generate" /\ pc = "check"
    /\ IF IsHit(arg, flagModel)
         THEN /\ Emit(1, "cached", arg, flagModel)
              /\ pc' = "done" /\ exitCode' = ExitSuccess
              /\ UNCHANGED <<invoked, failed>>
         ELSE IF clientOK
           THEN /\ pc' = "invoking"
                /\ invoked' = [invoked EXCEPT ![1] = @ + 1]
                /\ UNCHANGED <<exitCode, report, failed>>
           ELSE /\ pc' = "done" /\ exitCode' = ExitPartialFail /\ failed' = "client"
                /\ UNCHANGED <<invoked, report>>
    /\ UNCHANGED <<disk, cmd, flags, input, c, loopv, syncv, errored, w, saveCalls, saveOK,
                   hits, last, lib>>

\* rc.GenerateImage returns.  With --json an error is reported as a record
\* and runGenerate returns nil.
GenerateDone ==
  \E ok \in BOOLEAN :
    /\ cmd = "generate" /\ pc = "invoking"
    /\ IF ok THEN /\ pc' = "writing" /\ UNCHANGED <<exitCode, report, failed>>
             ELSE /\ pc' = "done" /\ failed' = "invoke"
                  /\ IF flagJSON
                       THEN Emit(1, "error", arg, flagModel) /\ exitCode' = ExitSuccess
                       ELSE UNCHANGED report /\ exitCode' = ExitPartialFail
    /\ UNCHANGED <<disk, cmd, flags, input, c, loopv, syncv, errored, w, invoked,
                   saveCalls, saveOK, hits, last, lib>>

\* A write whose error is ignored.
WriteImageIgnoresError ==
  \E ok \in BOOLEAN :
    /\ cmd = "generate" /\ pc = "writing"
    /\ IF ok THEN WriteFile(FileName(Hash(arg, flagModel)), Whole(arg, flagModel))
             ELSE \E cut \in SUBSET {FileName(Hash(arg, flagModel))} : CutFiles(cut)
    /\ pc' = "upsert"
    /\ UNCHANGED <<cacheFile, dir, cmd, flags, input, c, loopv, syncv, errored, w, invoked,
                   report, exitCode, saveCalls, saveOK, hits, failed, last, lib>>

\* convert.SaveWebP returns.
WriteImage ==
  \E ok \in BOOLEAN :
    /\ cmd = "generate" /\ pc = "writing"
    /\ IF ok THEN /\ WriteFile(FileName(Hash(arg, flagModel)), Whole(arg, flagModel))
                  /\ pc' = "upsert" /\ UNCHANGED <<exitCode, failed>>
             ELSE /\ \E cut \in SUBSET {FileName(Hash(arg, flagModel))} : CutFiles(cut)
                  /\ pc' = "done" /\ exitCode' = ExitPartialFail /\ failed' = "write"
    /\ UNCHANGED <<cacheFile, dir, cmd, flags, input, c, loopv, syncv, errored, w, invoked,
                   report, saveCalls, saveOK, hits, last, lib>>

\* c.Upsert(prompt, flagModel, filename).
UpsertImage ==
  /\ cmd = "generate" /\ pc = "upsert"
  /\ c' = Upsert(c, arg, flagModel, FileName(Hash(arg, flagModel)))
  /\ pc' = "save"
  /\ UNCHANGED <<disk, cmd, flags, input, loopv, syncv, errored, w, exitCode, invoked,
                 report, saveCalls, saveOK, hits, failed, last, lib>>

\* c.Save, then the generated record.
SaveGenerate ==
  \E ok \in BOOLEAN :
    /\ cmd = "generate" /\ pc = "save"
    /\ saveCalls' = saveCalls + 1 /\ saveOK' = ok
    /\ failed' = IF ok THEN failed ELSE "save"
    /\ IF ok THEN /\ cacheFile' = Saved(c)
                  /\ Emit(1, "generated", arg, flagModel)
                  /\ exitCode' = ExitSuccess
             ELSE /\ cacheFile' \in SaveFailed
                  /\ exitCode' = ExitPartialFail
                  /\ UNCHANGED report
    /\ pc' = "done"
    /\ UNCHANGED <<files, image, dir, cmd, flags, input, c, loopv, syncv, errored, w, invoked,
                   hits, last, lib>>

\* ------------------------------------------------------------ between runs

\* The process is gone, the disk stays.
ProcessGone ==
  /\ pc' = "idle" /\ cmd' = "none"
  /\ flagModel' = DefaultModel /\ flagNoCache' = FALSE
  /\ flagConcurrency' = 1 /\ flagJSON' = FALSE /\ flagDryRun' = FALSE
  /\ arg' = "" /\ pf' = <<>> /\ c' = <<>>
  /\ idx' = 0 /\ toGenerate' = <<>> /\ cachedCount' = 0 /\ next' = 0
  /\ sem' = 0 /\ wg' = 0 /\ mu' = 0 /\ errored' = 0
  /\ w' = NoWorkers
  /\ exitCode' = ExitSuccess
  /\ invoked' = NoCalls /\ report' = NoReports /\ saveCalls' = 0
  /\ saveOK' = FALSE /\ hits' = {} /\ failed' = ""
  /\ UNCHANGED <<cacheFile, dir, last, lib>>

\* os.Exit with the exit code.
Exit == pc = "done" /\ ProcessGone /\ UNCHANGED <<files, image>>

\* The image files that calls of convert.SaveWebP are writing.
BeingWritten ==
  IF cmd = "batch"
    THEN { ItemFile(k) : k \in { j \in 1..Len(toGenerate) : w[j].pc = "writing" } }
  ELSE IF cmd = "generate" /\ pc = "writing"
    THEN { FileName(Hash(arg, flagModel)) }
  ELSE {}

\* The process is terminated while it runs (an interrupt signal: nothing
\* handles it, the context of the run is never cancelled).  A file that was
\* being written is as it was before the write or is cut short.
Kill ==
  /\ pc \notin {"idle", "done"}
  /\ ProcessGone
  /\ \E cut \in SUBSET BeingWritten : CutFiles(cut)

\* Somebody deletes an image of the output directory while no command runs.
DeleteFile ==
  \E f \in files :
    /\ pc = "idle"
    /\ files' = files \ {f}
    /\ image' = [g \in files \ {f} |-> image[g]]
    /\ UNCHANGED <<cacheFile, dir, cmd, pc, flags, input, c, loopv, syncv, errored, w,
                   exitCode, invoked, report, saveCalls, saveOK, hits, failed, last, lib>>

Next ==
  \/ StartBatch
  \/ Categorize
  \/ NothingToDo
  \/ NewClient
  \/ Dispatch
  \/ EndDispatch
  \/ Wait
  \/ SaveBatch
  \/ \E k \in 1..MaxItems : Worker(k)
  \/ StartGenerate
  \/ CheckCache
  \/ GenerateDone
  \/ WriteImage
  \/ UpsertImage
  \/ SaveGenerate
  \/ Exit
  \/ Kill
  \/ DeleteFile

Spec == Init /\ [][Next]_vars

\* The scheduler runs every goroutine that can take a step: the main
\* goroutine in its dispatch loop, at wg.Wait and at c.Save, and each
\* goroutine of an item; a call of GenerateImage or SaveWebP returns.
MainGoroutine == Dispatch \/ EndDispatch \/ Wait \/ SaveBatch

Fairness ==
  /\ WF_vars(MainGoroutine)
  /\ \A k \in 1..MaxItems : WF_vars(Worker(k))

\* The batch command, run to its end any number of times: no process is
\* killed.
NextBatch ==
  \/ StartBatch
  \/ Categorize
  \/ NothingToDo
  \/ NewClient
  \/ Dispatch
  \/ EndDispatch
  \/ Wait
  \/ SaveBatch
  \/ \E k \in 1..MaxItems : Worker(k)
  \/ Exit

SpecFair == Init /\ [][NextBatch]_vars /\ Fairness

\* ------------------------------------------- batch files with an empty prompt

EmptyPromptEntries ==
  { [prompt |-> "",  model |-> "c"],
    [prompt |-> "a", model |-> "c"] }

EmptyPromptInputs ==
  { [kind |-> "unreadable", prompts |-> <<>>], [kind |-> "malformed", prompts |-> <<>>] }
    \cup { [kind |-> "parsed", prompts |-> s] : s \in SeqsUpTo(EmptyPromptEntries, MaxItems) }

StartBatchEmptyPrompt == StartBatchOf(EmptyPromptInputs)

NextInput ==
  \/ StartBatchEmptyPrompt
  \/ Categorize
  \/ NothingToDo
  \/ NewClient
  \/ Dispatch
  \/ EndDispatch
  \/ Wait
  \/ SaveBatch
  \/ \E k \in 1..MaxItems : Worker(k)
  \/ Exit
  \/ Kill
  \/ DeleteFile

SpecInput == Init /\ [][NextInput]_vars

\* ------------------------------------------------------------------ validate

MaxPrompts == 3   \* longest file given to validate

\* The entries of a file given to validate: an empty prompt, a pair with and
\* without its model spelled out, and two different pairs with a "|" in the
\* prompt or in the model.
ValidateEntries ==
  { [prompt |-> "",    model |-> "c"],
    [prompt |-> "a",   model |-> ""],
    [prompt |-> "a",   model |-> "bc"],
    [prompt |-> "a|b", model |-> "c"],
    [prompt |-> "a",   model |-> "b|c"] }

ValidateInputs ==
  { [kind |-> "unreadable", prompts |-> <<>>], [kind |-> "malformed", prompts |-> <<>>] }
    \cup { [kind |-> "parsed", prompts |-> s] : s \in SeqsUpTo(ValidateEntries, MaxPrompts) }

\* key := p.Prompt + "|" + model
Key(prompt, model) == prompt \o "|" \o model

\* seen[key]: the position the key was first seen at, 0 when it was not.
SeenAt(seen, key) ==
  IF \E e \in seen : e.key = key THEN (CHOOSE e \in seen : e.key = key).at ELSE 0

\* The loop over pf.Prompts, from item i on; st holds errors, warnings, seen
\* and empty.
RECURSIVE ValidateLoop(_, _, _, _)
ValidateLoop(prompts, model0, i, st) ==
  IF i > Len(prompts) THEN st
  ELSE
    LET p     == prompts[i]
        model == IF p.model = "" THEN model0 ELSE p.model
        key   == Key(p.prompt, model)
        prev  == SeenAt(st.seen, key)
    IN  IF p.prompt = ""
          THEN ValidateLoop(prompts, model0, i + 1,
                 [st EXCEPT !.errors = Append(@, [item |-> i, msg |-> "empty prompt text"]),
                            !.empty = @ + 1])
        ELSE IF prev # 0
          THEN ValidateLoop(prompts, model0, i + 1,
                 [st EXCEPT !.warnings = Append(@, [item |-> i, of |-> prev])])
        ELSE ValidateLoop(prompts, model0, i + 1,
                 [st EXCEPT !.seen = @ \cup {[key |-> key, at |-> i]}])

\* The ValidationResult of a parsed file.
ValidationResult(prompts, model0) ==
  LET st0 == [errors   |-> IF Len(prompts) = 0
                             THEN <<[item |-> 0, msg |-> "no prompts found in file"]>>
                             ELSE <<>>,
              warnings |-> <<>>, seen |-> {}, empty |-> 0]
      st  == ValidateLoop(prompts, model0, 1, st0)
  IN  [kind     |-> "parsed",
       valid    |-> Len(st.errors) = 0,
       errors   |-> st.errors,
       warnings |-> st.warnings,
       summary  |-> [total      |-> Len(prompts),
                     unique     |-> Cardinality(st.seen),
                     duplicates |-> Len(prompts) - Cardinality(st.seen) - st.empty,
                     empty      |-> st.empty]]

\* runValidate.  A file that cannot be read or parsed is reported as a result
\* with one error and a nil return with --json, as an ExitError without; an
\* invalid result is an ExitError in both modes.
Validate ==
  \E in \in ValidateInputs, json \in BOOLEAN :
    /\ pc = "idle"
    /\ cmd' = "validate" /\ pc' = "done"
    /\ flagModel' = DefaultModel /\ flagJSON' = json
    /\ pf' = in.prompts
    /\ IF in.kind # "parsed"
         THEN /\ vr' = [NoResult EXCEPT !.kind = in.kind,
                                        !.errors = <<[item |-> 0, msg |-> in.kind]>>]
              /\ exitCode' = IF json THEN ExitSuccess ELSE ExitInvalidInput
              /\ failed' = "input"
         ELSE /\ vr' = ValidationResult(in.prompts, DefaultModel)
              /\ exitCode' = IF vr'.valid THEN ExitSuccess ELSE ExitInvalidInput
              /\ failed' = IF vr'.valid THEN "" ELSE "input"
    /\ UNCHANGED <<disk, flagNoCache, flagConcurrency, flagDryRun, arg, c, loopv,
                   syncv, errored, w, invoked, report, saveCalls, saveOK, hits,
                   last, fsys, store, ret, fp, ex>>

NextValidate ==
  \/ Validate
  \/ Exit

SpecValidate == Init /\ [][NextValidate]_vars

\* ------------------------------------------------ extractImageURL on its own

\* GenerateImage hands the output of the prediction to extractImageURL.
Extract ==
  \E v \in Outputs(MaxDepth) :
    /\ ex' = [op |-> "extract", input |-> v, out |-> extractImageURL(v)]
    /\ UNCHANGED <<fsys, store, ret, mainv, fp, vr>>

NextExtract == Extract

SpecExtract == Init /\ [][NextExtract]_vars

\* ------------------------------------------------- the cache store on its own
\* Upsert called with any prompt, model and output file name, on the stores
\* such calls build from the empty one.

OutputNames == {"abc.webp", "ac.webp", "cat.webp"}

CacheUpsert ==
  \E in \in GenerateInputs, f \in OutputNames :
    /\ last' = [op |-> "upsert", prompt |-> in.prompt, model |-> in.model, file |-> f,
                old |-> IF \E i \in 1..Len(c) : c[i].hash = Hash(in.prompt, in.model)
                          THEN (CHOOSE e \in { c[i] : i \in 1..Len(c) } :
                                  e.hash = Hash(in.prompt, in.model)).outputFile
                          ELSE ""]
    /\ c' = Upsert(c, in.prompt, in.model, f)
    /\ UNCHANGED <<disk, cmd, pc, flags, input, loopv, syncv, errored, w, exitCode,
                   invoked, report, saveCalls, saveOK, hits, failed, lib>>

NextCache == CacheUpsert

SpecCache == Init /\ [][NextCache]_vars

\* ------------------------------------------ the cache package, byte by byte

\* Load(outputDir)
StoreLoad ==
  \E d \in Dirs :
    /\ store' = LoadDir(d).c
    /\ ret' = [op |-> "load", err |-> LoadDir(d).err, path |-> Join(d),
               seen |-> fsys[Join(d)].kind,
               was |-> IF ret.op = "save" /\ ~ret.err /\ ret.path = Join(d)
                         THEN ret.was ELSE <<>>]
    /\ UNCHANGED <<fsys, mainv, fp, vr, ex>>

\* c.Add(prompt, model, outputFile); the clock reads 1.
StoreAdd ==
  \E prompt \in PromptBytes :
    /\ store # <<>> /\ Len(store[1].entries) < MaxEntries
    /\ store' = <<[store[1] EXCEPT !.entries =
                     Append(@, [hash |-> HashBytes(prompt, ModelBytes),
                                prompt |-> prompt,
                                model |-> ModelBytes, outputFile |-> FileBytes,
                                createdAt |-> 1])]>>
    /\ ret' = [NoRet EXCEPT !.op = "add"]
    /\ UNCHANGED <<fsys, mainv, fp, vr, ex>>

\* c.Save(): os.WriteFile writes the text, or fails and leaves the file as it
\* was or cut short.
StoreSave ==
  \E ok \in BOOLEAN :
    /\ store # <<>>
    /\ IF ok THEN fsys' = [fsys EXCEPT ![store[1].path] =
                             JSONFile(MarshalIndent(store[1].entries))]
             ELSE \E f \in {fsys[store[1].path], Garbage} :
                    fsys' = [fsys EXCEPT ![store[1].path] = f]
    /\ ret' = [op |-> "save", err |-> ~ok, path |-> store[1].path, seen |-> "",
               was |-> store]
    /\ UNCHANGED <<store, mainv, fp, vr, ex>>

\* The process dies inside c.Save().  os.WriteFile opens the file with
\* O_TRUNC and then writes: the file is as it was (not yet opened), cut short
\* (opened, or written in part), or complete (written).  The store goes with
\* the process.
StoreCrash ==
  /\ store # <<>>
  /\ \E f \in {fsys[store[1].path], Garbage,
                JSONFile(MarshalIndent(store[1].entries))} :
       fsys' = [fsys EXCEPT ![store[1].path] = f]
  /\ store' = <<>>
  /\ ret' = [op |-> "crash", err |-> TRUE, path |-> store[1].path, seen |-> "",
             was |-> <<>>]
  /\ UNCHANGED <<mainv, fp, vr, ex>>

NextStore ==
  \/ StoreLoad
  \/ StoreAdd
  \/ StoreSave
  \/ StoreCrash

SpecStore == Init /\ [][NextStore]_vars

\* ------------------------------------------------------------ Hash on its own
\* Calls of Hash between the calls of the cache package, in any state of the
\* store and of the files, before and after the death of a process.

\* Hash(prompt, model): what was written to the digest and what was returned.
HashCall ==
  \E a \in HashArgs :
    /\ fp[a].n < MaxCalls
    /\ fp' = [fp EXCEPT ![a] =
                [n   |-> @.n + 1,
                 out |-> @.out \cup {[input |-> Written(a[1], a[2]),
                                      value |-> HashBytes(a[1], a[2])]}]]
    /\ UNCHANGED <<fsys, store, ret, mainv, vr, ex>>

NextHash ==
  \/ HashCall
  \/ StoreLoad
  \/ StoreAdd
  \/ StoreSave
  \/ StoreCrash

SpecHash == Init /\ [][NextHash]_vars

\* --------------------------------------------------------------------- claims

Started(k)  == w[k].pc # "idle"
Finished(k) == w[k].pc = "done"
InFlight    == { k \in 1..MaxItems : w[k].pc = "invoking" }
InCritical  == { k \in 1..MaxItems : w[k].pc \in {"counting", "upserting"} }
AtLock      == { k \in 1..MaxItems : w[k].pc \in {"failed", "written"} }

\* C1: in a batch run with concurrency bound C, at no instant are more than C
\* calls of GenerateImage in flight.
C1_ConcurrencyBound ==
  cmd = "batch" => Cardinality(InFlight) <= flagConcurrency

\* C1 witness: as many calls in flight as the bound allows, while an item is
\* still waiting to be dispatched.
C1_Witness ==
  /\ cmd = "batch" /\ pc = "dispatch" /\ next <= Len(toGenerate)
  /\ Cardinality(InFlight) = flagConcurrency

\* C2: at most one goroutine at a time is inside a section that upserts into
\* the cache, increments errored or emits a result record, the mutex is held
\* exactly then, and the final save and the read of errored happen when every
\* goroutine has returned.
C2_MutualExclusion ==
  cmd = "batch" =>
    /\ Cardinality(InCritical) <= 1
    /\ \A k \in InCritical : mu = k
    /\ (mu # 0 => mu \in InCritical)
    /\ (pc \in {"save", "done"} => \A k \in 1..MaxItems : Started(k) => Finished(k))

\* C2 witness: one goroutine inside its section while another one waits for
\* the mutex.
C2_Witness ==
  /\ cmd = "batch"
  /\ InCritical # {} /\ AtLock # {}

Unique(entries) ==
  \A i, j \in 1..Len(entries) : entries[i].hash = entries[j].hash => i = j

\* C3: in every state of the cache store, in memory and on disk, across any
\* sequence of single-prompt and batch runs, there is at most one entry per
\* fingerprint.
C3_OneEntryPerFingerprint ==
  /\ Unique(c)
  /\ Unique(cacheFile.entries)
  /\ \A k \in 1..MaxItems : Unique(w[k].snap)

\* C3 witness: a batch with the same fingerprint twice, both generated and
\* both upserted.
C3_Witness ==
  /\ cmd = "batch" /\ pc = "done" /\ saveCalls = 1
  /\ \E j, k \in 1..Len(toGenerate) :
       /\ j # k /\ ItemHash(j) = ItemHash(k)
       /\ Statuses(Item(j).src) = <<"generated">>
       /\ Statuses(Item(k).src) = <<"generated">>

\* C4: right after upsert(prompt, model, f), lookup(fingerprint(prompt, model))
\* returns an entry whose output file name is f, whether the fingerprint had
\* an entry before or not.
C4_LookupAfterUpsert ==
  last.op = "upsert" =>
    LET i == Lookup(c, Hash(last.prompt, last.model))
    IN  i # 0 /\ c[i].outputFile = last.file

\* C4 witness: an upsert that found an entry with another output file name.
C4_Witness ==
  /\ last.op = "upsert"
  /\ last.old # "" /\ last.old # last.file

Pending == 1..Len(toGenerate)
Generated(k) == Statuses(Item(k).src) = <<"generated">>
Errored(k)   == Statuses(Item(k).src) = <<"error">>

\* C5: after a batch run whose save succeeded, the saved cache store holds,
\* for every pending item that was generated and written, an entry with the
\* item's fingerprint, prompt, model and output file name.
C5_NoEntryLost ==
  (cmd = "batch" /\ pc = "done" /\ saveCalls = 1 /\ saveOK) =>
    \A k \in Pending :
      Generated(k) =>
        \E i \in 1..Len(cacheFile.entries) :
          cacheFile.entries[i] = NewEntry(Item(k).prompt, Item(k).model, ItemFile(k))

\* C6 as stated: a batch run that ends with success has saved the cache
\* store exactly once.
C6_SavedExactlyOnce ==
  (cmd = "batch" /\ pc = "done" /\ ~flagDryRun /\ exitCode = ExitSuccess) =>
    saveCalls = 1

\* C6: a batch run saves the cache store at most once; the save happens only
\* when every dispatched item has completed, is the last step of the run, and
\* is made exactly when at least one item was dispatched.
C6_SaveOnceAfterAll ==
  cmd = "batch" =>
    /\ saveCalls <= 1
    /\ (pc = "save" \/ saveCalls = 1) =>
         \A k \in 1..MaxItems : (k \in Pending) = Finished(k)
    /\ saveCalls = 1 => pc = "done"
    /\ pc = "done" => (saveCalls = 1 <=> \E k \in 1..MaxItems : Started(k))

\* C6 witness: the save of a run with two dispatched items, one of which
\* failed.
C6_Witness ==
  /\ cmd = "batch" /\ pc = "done" /\ saveCalls = 1
  /\ Len(toGenerate) = 2 /\ errored = 1

\* C7: while the categorize loop runs no goroutine has started, no call of
\* GenerateImage was made and the cache is as loaded; once a goroutine has
\* started, every item of the input is either counted cached or pending.
C7_PartitionBeforeWorkers ==
  cmd = "batch" =>
    /\ pc = "categorize" =>
         /\ \A k \in 1..MaxItems : ~Started(k) /\ invoked[k] = 0
         /\ c = Load
    /\ (\E k \in 1..MaxItems : Started(k)) =>
         /\ idx = Len(pf) + 1
         /\ cachedCount + Len(toGenerate) = Len(pf)

\* C7 witness: a goroutine runs after a partition with a cached and a pending
\* item.
C7_Witness ==
  /\ cmd = "batch" /\ cachedCount >= 1 /\ Len(toGenerate) >= 1
  /\ \E k \in Pending : w[k].pc = "invoking"

\* C8 as stated: at the end of a batch run that is no dry run, every pending
\* item was invoked exactly once.
C8_EveryPendingInvokedOnce ==
  (cmd = "batch" /\ pc = "done" /\ ~flagDryRun /\ idx = Len(pf) + 1) =>
    \A k \in Pending : invoked[k] = 1

\* C8: no item is ever invoked more than once, and at the end of a batch run
\* in which the API client was created every pending item was invoked exactly
\* once, whatever the outcome of the other items.
C8_PendingInvokedOnce ==
  cmd = "batch" =>
    /\ \A k \in 1..MaxItems : invoked[k] <= 1 /\ (k \notin Pending => invoked[k] = 0)
    /\ (pc = "done" /\ next > 0) => \A k \in Pending : invoked[k] = 1

\* C8 witness: a finished run in which one item failed and another one was
\* generated, each invoked once.
C8_Witness ==
  /\ cmd = "batch" /\ pc = "done"
  /\ \E j, k \in Pending :
       /\ Errored(j) /\ Generated(k)
       /\ invoked[j] = 1 /\ invoked[k] = 1

NumErrored == Cardinality({ k \in Pending : Errored(k) })

\* C9: a batch run whose pending items have all completed ends with total
\* failure exactly when every pending item errored, with partial failure
\* exactly when some but not all errored, and with success exactly when none
\* errored.
C9_OutcomeByErrors ==
  (cmd = "batch" /\ pc = "done" /\ saveCalls = 1) =>
    exitCode = IF NumErrored = 0 THEN ExitSuccess
               ELSE IF NumErrored = Len(toGenerate) THEN ExitTotalFail
               ELSE ExitPartialFail

RECURSIVE SumTo(_, _)
SumTo(f, n) == IF n = 0 THEN 0 ELSE f[n] + SumTo(f, n - 1)

Items          == 1..Len(pf)
ReportedCached == { i \in Items : Statuses(i) = <<"cached">> }
PartitionCounts ==
  /\ SumTo(invoked, MaxItems) = Cardinality(Items \ hits)
  /\ ReportedCached = hits
  /\ \A k \in Pending : invoked[k] > 0 => Item(k).src \notin ReportedCached
  /\ \A i \in Items : Len(report[i]) = 1

\* C10 as stated: at the end of a batch run without cache bypass that is no
\* dry run, the invocations are as many as the items that were no cache hits
\* at the start, the items reported cached are the hits, no item is both,
\* and every item has one report.
C10_PartitionCounts ==
  (cmd = "batch" /\ pc = "done" /\ ~flagNoCache /\ ~flagDryRun /\ Len(pf) > 0) =>
    PartitionCounts

\* C10: the same, for the runs that created the output directory, loaded the
\* cache and, with a pending item, created the API client.
C10_PartitionCountsOfCompleteRun ==
  (/\ cmd = "batch" /\ pc = "done" /\ ~flagNoCache /\ ~flagDryRun
   /\ idx = Len(pf) + 1
   /\ Len(toGenerate) > 0 => next > 0) =>
    PartitionCounts

\* C10 witness: a finished run of two items, one a hit and one generated or
\* failed.
C10_Witness ==
  /\ cmd = "batch" /\ pc = "done" /\ ~flagNoCache /\ saveCalls = 1
  /\ Len(pf) = 2 /\ Cardinality(hits) = 1

\* The items the run has to treat as cache hits, and those whose entry in the
\* cache file names a file that was not there when the run started.
Hits == IF flagNoCache THEN {} ELSE hits
HasStaleEntry(i, hash) ==
  /\ saveCalls = 0 /\ i \notin hits
  /\ \E j \in 1..Len(cacheFile.entries) : cacheFile.entries[j].hash = hash
IsReported(i, status) == \E j \in 1..Len(report[i]) : report[i][j].status = status

\* C11: in the batch and single-prompt paths an item is reported cached only
\* when the store had an entry for its fingerprint and the entry's file was
\* on disk; every other item the loop has passed is pending, is invoked when
\* the client exists, and gets an error record only after its invocation.
C11_HitNeedsEntryAndFile ==
  /\ (cmd = "batch" /\ ~flagDryRun) =>
       /\ \A i \in Items :
            /\ IsReported(i, "cached") => i \in Hits
            /\ i < idx => (i \in Hits <=> Statuses(i) = <<"cached">>)
            /\ i < idx => (i \notin Hits <=> \E k \in Pending : Item(k).src = i)
       /\ \A k \in Pending :
            /\ IsReported(Item(k).src, "error") => invoked[k] = 1
            /\ (pc = "done" /\ next > 0) => invoked[k] = 1
  /\ (cmd = "generate" /\ ~flagDryRun) =>
       /\ IsReported(1, "cached") => 1 \in Hits
       /\ 1 \in Hits => pc \in {"check", "done"} /\ invoked[1] = 0
       /\ (1 \notin Hits /\ pc # "check" /\ failed \notin {"mkdir", "load", "client"}) =>
            invoked[1] = 1
       /\ IsReported(1, "error") => invoked[1] = 1

\* C11 witness: a batch run without cache bypass has generated and written
\* an item whose entry named a file that was deleted.
C11_Witness ==
  /\ cmd = "batch" /\ ~flagNoCache
  /\ \E k \in Pending :
       /\ w[k].pc = "written"
       /\ HasStaleEntry(Item(k).src, ItemHash(k))

\* C12: the entries of the store in memory change only in the upsert of an
\* item that was invoked and whose output file is written, and only at that
\* item's fingerprint; the cache file changes only in the save at the end of
\* a run, so a failed item and an item in flight when the process is
\* terminated leave the entries as they were.
C12_UpsertAfterSuccess ==
  [][ /\ (cmd = "batch" /\ cmd' = "batch" /\ c' # c) =>
           \E k \in Pending :
             /\ w[k].pc = "upserting" /\ w'[k].pc = "returning"
             /\ invoked[k] = 1 /\ ItemFile(k) \in files
             /\ ~IsReported(Item(k).src, "error")
             /\ \A i \in 1..Len(c) : c'[i] = c[i] \/ c[i].hash = ItemHash(k)
      /\ (cmd = "generate" /\ cmd' = "generate" /\ c' # c) =>
           /\ pc = "upsert" /\ invoked[1] = 1
           /\ FileName(Hash(arg, flagModel)) \in files
           /\ \A i \in 1..Len(c) : c'[i] = c[i] \/ c[i].hash = Hash(arg, flagModel)
      /\ cacheFile' # cacheFile =>
           /\ pc = "save" /\ pc' = "done"
           /\ cacheFile'.state = "valid" => cacheFile'.entries = c
    ]_vars

\* C12 witness: a saved batch run in which one item failed and has no entry
\* and another one was generated and has one.
C12_Witness ==
  /\ cmd = "batch" /\ pc = "done" /\ saveOK
  /\ \E j, k \in Pending :
       /\ Errored(j) /\ Generated(k)
       /\ \A i \in 1..Len(cacheFile.entries) : cacheFile.entries[i].hash # ItemHash(j)
       /\ \E i \in 1..Len(cacheFile.entries) : cacheFile.entries[i].hash = ItemHash(k)

ArgHash == Hash(arg, flagModel)
ArgFile == FileName(ArgHash)
Untouched == c = Load /\ saveCalls = 0
HasArgEntry ==
  \E i \in 1..Len(c) : c[i].hash = ArgHash /\ c[i].outputFile = ArgFile

\* Where the single-prompt path stands, and what it has done by then.
GenerateOrder ==
  (cmd = "generate" /\ ~flagDryRun) =>
    /\ pc = "check"    => invoked[1] = 0 /\ report[1] = <<>> /\ Untouched
    /\ pc = "invoking" => 1 \notin Hits /\ invoked[1] = 1 /\ Untouched
    /\ pc = "writing"  => invoked[1] = 1 /\ failed = "" /\ Untouched
    /\ pc = "upsert"   => invoked[1] = 1 /\ ArgFile \in files /\ Untouched
    /\ pc = "save"     => ArgFile \in files /\ HasArgEntry /\ saveCalls = 0
    /\ saveCalls = 1   => /\ pc = "done" /\ invoked[1] = 1
                          /\ ArgFile \in files /\ HasArgEntry
    /\ failed \in {"client", "invoke", "write"} => pc = "done" /\ Untouched
    /\ failed = "client" => invoked[1] = 0
    /\ IsReported(1, "cached") =>
         pc = "done" /\ 1 \in Hits /\ invoked[1] = 0 /\ failed = "" /\ Untouched

\* C13: the single-prompt path checks the cache, invokes, writes the file,
\* upserts and saves in that order, each step only after the one before it
\* succeeded; a cache hit ends the run with no invocation, write, upsert or
\* save.
C13_GenerateInOrder ==
  /\ []GenerateOrder
  /\ [][(cmd = "generate" /\ cmd' = "generate"
            /\ (files' # files \/ image' # image)) =>
          /\ pc = "writing"
          /\ pc' = "upsert" \/ (pc' = "done" /\ failed' = "write")]_vars

\* C13 witness: a single-prompt run that went through all five steps.
C13_Witness ==
  /\ cmd = "generate" /\ pc = "done" /\ saveCalls = 1 /\ saveOK
  /\ Statuses(1) = <<"generated">>

\* One record per item, with one of the three statuses and the prompt and
\* fingerprint of the item; as many error records as failures counted.
OneRecordPerItem ==
  /\ \A i \in Items :
       /\ Len(report[i]) = 1
       /\ report[i][1].status \in {"generated", "cached", "error"}
       /\ report[i][1].prompt = pf[i].prompt
       /\ report[i][1].hash = Hash(pf[i].prompt, ResolveModel(pf[i]))
  /\ errored = NumErrored
  /\ \A k \in Pending : Generated(k) \/ Errored(k)

\* C14 as stated: at the end of a batch run with --json that is no dry run,
\* every item of the input has exactly one record.
C14_OneRecordPerItem ==
  (cmd = "batch" /\ pc = "done" /\ flagJSON /\ ~flagDryRun /\ Len(pf) > 0) =>
    OneRecordPerItem

\* C14: the same, for the runs that created the output directory, loaded the
\* cache and, with a pending item, created the API client; and at no time has
\* an item more than one record or a failed item no record.
C14_OneRecordPerItemOfCompleteRun ==
  (cmd = "batch" /\ flagJSON /\ ~flagDryRun) =>
    /\ \A i \in 1..MaxItems : Len(report[i]) <= 1
    /\ \A k \in Pending :
         w[k].pc \in {"counting", "returning", "released", "done"} =>
           Len(report[Item(k).src]) = 1
    /\ (/\ pc = "done" /\ idx = Len(pf) + 1
        /\ Len(toGenerate) > 0 => next > 0) => OneRecordPerItem

\* C14 witness: a finished run of two items, one reported cached and one
\* reported with an error.
C14_Witness ==
  /\ cmd = "batch" /\ pc = "done" /\ flagJSON /\ Len(pf) = 2
  /\ \E i, j \in Items : Statuses(i) = <<"cached">> /\ Statuses(j) = <<"error">>

\* C15: a single-prompt run whose invocation failed ends with a failure
\* outcome, with and without --json, and has neither upserted nor saved.
C15_FailedInvocationIsFatal ==
  (cmd = "generate" /\ pc = "done" /\ failed = "invoke") =>
    exitCode # ExitSuccess /\ Untouched

\* The batch file is unreadable, malformed or without prompts, or it holds an
\* item with an empty prompt.
InvalidInput == failed = "input" \/ \E i \in Items : pf[i].prompt = ""

\* C16: a batch command with an invalid input ends at once with the
\* invalid-input outcome and makes no invocation.
C16_InvalidInputRejected ==
  (cmd = "batch" /\ InvalidInput) =>
    /\ pc = "done" /\ exitCode = ExitInvalidInput
    /\ \A k \in 1..MaxItems : invoked[k] = 0

\* C17: a batch run whose final save failed ends with an outcome that is
\* neither success nor partial failure nor total failure, while a failed
\* write of an item's file is counted as that item's failure and the run
\* goes on to the save.
C17_SaveFailureDistinct ==
  (cmd = "batch" /\ pc = "done") =>
    /\ failed = "save" =>
         exitCode \notin {ExitSuccess, ExitPartialFail, ExitTotalFail}
    /\ next > 0 => saveCalls = 1 /\ errored = NumErrored

\* The cache file cannot be parsed and this run has not tried to save.
CorruptAtLoad == cmd # "none" /\ cacheFile.state = "corrupt" /\ saveCalls = 0

\* C18: a single-prompt or batch run that finds an unparsable cache file
\* ends at once with a failure, without an invocation, a record or a started
\* goroutine, and leaves the cache file and the directory as they are.
C18_CorruptCacheAborts ==
  /\ [](CorruptAtLoad =>
          /\ pc = "done" /\ exitCode # ExitSuccess
          /\ failed \in {"input", "mkdir", "load"}
          /\ \A k \in 1..MaxItems : invoked[k] = 0 /\ ~Started(k) /\ report[k] = <<>>)
  /\ [][(cacheFile.state = "corrupt" /\ saveCalls = 0 /\ saveCalls' = 0
         /\ (cmd # "none" \/ cmd' # "none")) => UNCHANGED disk]_vars

\* C18 witness: a batch run of two items stopped by the load of an unparsable
\* cache file.
C18_Witness ==
  /\ cmd = "batch" /\ failed = "load" /\ Len(pf) = 2 /\ ~flagDryRun
  /\ cacheFile.state = "corrupt"

\* C19: Load of a directory without cache file returns an empty store bound
\* to the path of that directory's cache file and no error; Load of a
\* directory whose cache file is malformed returns an error and no store.
C19_LoadAbsentOrMalformed ==
  ret.op = "load" =>
    /\ ret.seen = "absent" =>
         /\ ~ret.err
         /\ store = <<[entries |-> <<>>, path |-> ret.path]>>
         /\ ret.path \in Paths
    /\ ret.seen = "garbage" => ret.err /\ store = <<>>

\* C19 witness: a load that found a malformed file.
C19_Witness == ret.op = "load" /\ ret.seen = "garbage"

\* C20: a load that follows a successful save to the same directory returns
\* a store with the entries that were saved, in the same order and equal
\* field for field, bound to the same path.
C20_SaveLoadRoundTrip ==
  (ret.op = "load" /\ ret.was # <<>>) => ~ret.err /\ store = ret.was

\* C21: when the process dies inside a save over a cache file that held a
\* complete store, the file afterwards holds that same content or the
\* complete new content, never a file cut short.
C21_SaveIsAtomic ==
  [][(ret'.op = "crash" /\ fsys[ret'.path].kind = "json") =>
       fsys'[ret'.path] \in {fsys[ret'.path],
                             JSONFile(MarshalIndent(store[1].entries))}]_vars

\* The goroutines whose call of convert.SaveWebP has not returned.
Writing == { k \in Pending : w[k].pc = "writing" }

\* C22: in a batch run no two goroutines are inside convert.SaveWebP with the
\* same output path at the same time, whatever the batch file lists.
C22_DistinctOutputPaths ==
  cmd = "batch" =>
    \A j, k \in Writing : j # k => ItemFile(j) # ItemFile(k)

\* C23: the byte sequences that Hash feeds to the digest for two different
\* (prompt, model) pairs are different.
C23_UnambiguousHashInput ==
  \A a, b \in HashArgs :
    a # b => \A x \in fp[a].out, y \in fp[b].out : x.input # y.input

\* Every call of Hash made so far for a pair has returned the same value, of
\* 16 characters, which is the value a call returns in the present state.
HashDeterministic ==
  \A a \in HashArgs :
    /\ Cardinality(fp[a].out) <= 1
    /\ \A x \in fp[a].out :
         Len(x.value) = 16 /\ x.value = HashBytes(a[1], a[2])

\* C24: Hash is a pure function: equal arguments give the same 16-character
\* value in every state of the store and of the files, before and after the
\* death of a process, and a call changes neither store nor file nor any
\* other state.
C24_HashIsPure ==
  /\ []HashDeterministic
  /\ [][fp' # fp => UNCHANGED <<fsys, store, ret, mainv, vr, ex>>]_vars

\* C24 witness: a pair was hashed twice and the store at hand holds entries,
\* one of them written to a cache file.
C24_Witness ==
  /\ \E a \in HashArgs : fp[a].n = MaxCalls
  /\ store # <<>> /\ store[1].entries # <<>>
  /\ \E p \in Paths : fsys[p].kind = "json" /\ fsys[p].data # <<>>

\* The items with an empty prompt, and the items with a prompt whose pair of
\* prompt and resolved model is the pair of an earlier item.
EmptyItems == { i \in Items : pf[i].prompt = "" }
DuplicateItems ==
  { i \in Items :
      /\ pf[i].prompt # ""
      /\ \E j \in 1..(i - 1) :
           pf[j].prompt = pf[i].prompt /\ ResolveModel(pf[j]) = ResolveModel(pf[i]) }
ErrorsAbout(i)   == { n \in 1..Len(vr.errors) : vr.errors[n].item = i }
WarningsAbout(i) == { n \in 1..Len(vr.warnings) : vr.warnings[n].item = i }

\* C25: for a parsed file, validate reports one error for each item with an
\* empty prompt and none for the others, one warning for each item with a
\* prompt whose pair appeared earlier and none for the others, and a summary
\* with total = unique + duplicates + empty, duplicates the number of
\* warnings and empty the number of empty-prompt errors.
C25_ValidateCounts ==
  (cmd = "validate" /\ vr.kind = "parsed") =>
    /\ \A i \in Items :
         /\ Cardinality(ErrorsAbout(i)) = IF i \in EmptyItems THEN 1 ELSE 0
         /\ Cardinality(WarningsAbout(i)) = IF i \in DuplicateItems THEN 1 ELSE 0
    /\ vr.summary.total = Len(pf)
    /\ vr.summary.total = vr.summary.unique + vr.summary.duplicates + vr.summary.empty
    /\ vr.summary.duplicates = Len(vr.warnings)
    /\ vr.summary.empty = Cardinality(EmptyItems)

\* The names under which an object may hold its reference.
KnownNames == {"url", "image", "output", "uri"}

\* The references an output holds: the string itself, those of the first
\* element of a list, the strings under the known names of an object.
RECURSIVE Refs(_)
Refs(v) ==
  IF v.t = "string" THEN {v.s}
  ELSE IF v.t = "list" THEN IF v.items = <<>> THEN {} ELSE Refs(v.items[1])
  ELSE IF v.t = "object"
    THEN { v.fields[k].s : k \in { n \in KnownNames \cap DOMAIN v.fields :
                                     v.fields[n].t = "string" } }
  ELSE {}

RECURSIVE Depth(_)
Depth(v) ==
  IF v.t = "list" /\ v.items # <<>> THEN 1 + Depth(v.items[1]) ELSE 0

\* C26: extractImageURL returns the string itself for a string, the
\* reference of the first element for a list that is not empty, a string
\* held under one of the four known names for an object; it returns an error
\* and no reference for an empty list, for an object without a reference
\* under a known name and for every other shape; and it returns after one
\* call per level of nesting.
C26_ExtractImageURL ==
  ex.op = "extract" =>
    /\ ex.out.err = (Refs(ex.input) = {})
    /\ ~ex.out.err => ex.out.url \in Refs(ex.input)
    /\ ex.out.err => ex.out.url = ""
    /\ ex.input.t = "string" => ex.out.url = ex.input.s
    /\ ex.out.calls = Depth(ex.input) + 1

\* C26 witness: a list in a list whose first element is an object with a
\* number under "url" and its reference under "uri".
C26_Witness ==
  /\ ex.op = "extract" /\ ~ex.out.err /\ ex.out.calls = 3
  /\ \E o \in Objects :
       /\ DOMAIN o.fields = {"url", "uri"} /\ o.fields["url"] = Num
       /\ ex.input.items[1].items[1] = o
       /\ ex.out.url = o.fields["uri"].s

\* The items of the running command, and what a dry run has done and
\* reported.
RunItems == 1..(IF cmd = "batch" THEN Len(pf) ELSE 1)
DryRunOutcome ==
  (cmd \in {"generate", "batch"} /\ flagDryRun) =>
    /\ \A k \in 1..MaxItems : invoked[k] = 0 /\ ~Started(k)
    /\ saveCalls = 0
    /\ pc \in {"categorize", "done"}
    /\ c = Load \/ failed # ""
    /\ (pc = "done" /\ failed = "") =>
         /\ Len(toGenerate) + cachedCount = Cardinality(RunItems)
         /\ cachedCount = Cardinality(Hits \cap RunItems)
         /\ \A i \in RunItems :
              /\ Statuses(i) = IF i \in Hits THEN <<"cached">> ELSE <<"pending">>
              /\ i \in Hits <=> ~\E k \in Pending : Item(k).src = i

\* C27: a single-prompt or batch run with --dry-run invokes nothing, starts
\* no goroutine, creates no output directory, writes no file, does not
\* upsert and does not save; the counts it reports add up to the number of
\* prompts, and an item is counted and reported cached exactly when it is a
\* cache hit.
C27_DryRunChangesNothing ==
  /\ []DryRunOutcome
  /\ [][(flagDryRun' /\ cmd' # "none") =>
          /\ UNCHANGED disk
          /\ cmd # "none" => c' = c]_vars

\* C27 witness: the end of a batch dry run of two items, one a cache hit and
\* one pending.
C27_Witness ==
  /\ cmd = "batch" /\ flagDryRun /\ pc = "done" /\ failed = ""
  /\ cachedCount = 1 /\ Len(toGenerate) = 1

\* Prompt and model of item i of the running command.
PromptOf(i) == IF cmd = "batch" THEN pf[i].prompt ELSE arg
ModelOf(i)  == IF cmd = "batch" THEN ResolveModel(pf[i]) ELSE flagModel

\* Every item reported generated has its entry in the cache file and its
\* file in the directory: it is a cache hit for the run that comes next.
GeneratedOnDisk ==
  \A i \in RunItems :
    IsReported(i, "generated") => OnDisk(PromptOf(i), ModelOf(i))

\* Every item that was a cache hit when the run started is reported cached
\* and is neither pending nor invoked, once the run has looked at it.
HitsReportedCached ==
  \A i \in hits \cap RunItems :
    (IF cmd = "batch" THEN i < idx \/ pc = "done" ELSE pc = "done") =>
      /\ Statuses(i) = <<"cached">>
      /\ ~\E k \in Pending : Item(k).src = i
      /\ cmd = "generate" => invoked[1] = 0

\* C28 as stated: an item reported generated is a cache hit at the end of
\* its run, whatever became of the save, and a run without cache bypass
\* reports every item that was a hit at its start as cached.
C28_GeneratedThenCached ==
  (cmd \in {"generate", "batch"} /\ pc = "done") =>
    /\ GeneratedOnDisk
    /\ ~flagNoCache => HitsReportedCached

\* C28: an item reported generated by a run whose save succeeded is a cache
\* hit at the end of that run, and the single-prompt path reports generated
\* only after its save succeeded; a run without cache bypass that gets past
\* the creation of the output directory reports every item that was a hit at
\* its start as cached and does not invoke it.
C28_SavedThenCached ==
  cmd \in {"generate", "batch"} =>
    /\ (pc = "done" /\ saveOK) => GeneratedOnDisk
    /\ (cmd = "generate" /\ IsReported(1, "generated")) => pc = "done" /\ saveOK
    /\ (~flagNoCache /\ failed # "mkdir") => HitsReportedCached

\* C28 witness: a single-prompt run reports cached, without an invocation,
\* the prompt and model of an entry that a run before it has saved.
C28_Witness ==
  /\ cmd = "generate" /\ ~flagDryRun /\ pc = "done"
  /\ Statuses(1) = <<"cached">> /\ invoked[1] = 0
  /\ \E i \in 1..Len(cacheFile.entries) :
       cacheFile.entries[i] = NewEntry(arg, flagModel, ArgFile)

\* With --no-cache no item is counted or reported cached, and every item the
\* categorize loop has passed is pending.
BypassAllPending ==
  /\ cachedCount = 0
  /\ \A i \in RunItems : ~IsReported(i, "cached")
  /\ cmd = "batch" =>
       \A i \in Items : i < idx => \E k \in Pending : Item(k).src = i

\* C29 as stated: at the end of a run with --no-cache that is no dry run,
\* every item was pending and was invoked.
C29_BypassInvokesAll ==
  (cmd \in {"generate", "batch"} /\ flagNoCache /\ ~flagDryRun /\ pc = "done") =>
    /\ BypassAllPending
    /\ cmd = "batch" =>
         \A i \in Items : \E k \in Pending : Item(k).src = i /\ invoked[k] = 1
    /\ cmd = "generate" => invoked[1] = 1

\* C29: with --no-cache no item is treated as cached, whatever the cache and
\* the directory hold, in a dry run too; and at the end of a run that is no
\* dry run, that created the output directory, loaded the cache and created
\* the API client, every item was invoked once.
C29_BypassInvokesAllOfCompleteRun ==
  (cmd \in {"generate", "batch"} /\ flagNoCache) =>
    /\ BypassAllPending
    /\ (cmd = "batch" /\ ~flagDryRun /\ pc = "done" /\ next > 0) =>
         \A i \in Items : \E k \in Pending : Item(k).src = i /\ invoked[k] = 1
    /\ (cmd = "generate" /\ ~flagDryRun /\ pc # "check"
          /\ failed \notin {"mkdir", "load", "client"}) => invoked[1] = 1

\* C29 witness: a batch run with --no-cache has invoked an item whose entry
\* is in the cache file and whose file is in the directory.
C29_Witness ==
  /\ cmd = "batch" /\ flagNoCache /\ ~flagDryRun
  /\ \E k \in Pending : Item(k).src \in hits /\ invoked[k] = 1

\* The hash of an entry is the fingerprint of its prompt and model, and its
\* output file name is that hash followed by the image extension.
EntryNamed(e) ==
  /\ e.hash = Hash(e.prompt, e.model)
  /\ e.outputFile = e.hash \o ".webp"
AllNamed(entries) == \A i \in 1..Len(entries) : EntryNamed(entries[i])

\* After a registration the store has an entry with this hash and this file
\* name, and the file is in the directory.
Registered(entries, hash, file) ==
  /\ file \in files
  /\ \E i \in 1..Len(entries) :
       entries[i].hash = hash /\ entries[i].outputFile = file

\* C30: every entry of the store, in memory and in the cache file, has the
\* fingerprint of its prompt and model as hash and that fingerprint followed
\* by the image extension as output file name; and what a run registers for
\* an item is the fingerprint of the item and the name of the file the run
\* wrote for it.
C30_EntryNamedByFingerprint ==
  /\ [](/\ AllNamed(c)
        /\ AllNamed(cacheFile.entries)
        /\ \A k \in 1..MaxItems : AllNamed(w[k].snap))
  /\ [][ /\ \A k \in 1..MaxItems :
               (w[k].pc = "upserting" /\ w'[k].pc = "returning") =>
                 Registered(c', ItemHash(k), ItemFile(k))
         /\ (cmd = "generate" /\ pc = "upsert" /\ pc' = "save") =>
               Registered(c', ArgHash, ArgFile)
     ]_vars

\* C30 witness: a batch run has registered two items with one fingerprint
\* and different prompts, and the file of that name is in the directory.
C30_Witness ==
  /\ cmd = "batch"
  /\ \E j, k \in Pending :
       /\ j # k /\ Generated(j) /\ Generated(k)
       /\ Item(j).prompt # Item(k).prompt /\ ItemHash(j) = ItemHash(k)
       /\ Registered(c, ItemHash(k), ItemFile(k))

\* The pending items the dispatch loop has passed, and the goroutines that
\* have returned.
Dispatched == { k \in Pending : k < next }
Completed  == { k \in Pending : Finished(k) }

\* C31: in a batch run the pending items take a slot and start in input
\* order: the items that have started are the first ones of the pending list,
\* one item at a time takes a slot and it is the first that has not started,
\* and an item is invoked only when every item before it has been dispatched.
C31_DispatchInInputOrder ==
  /\ [](cmd = "batch" =>
          /\ \A k \in Pending : Started(k) <=> k \in Dispatched
          /\ \A k \in 1..MaxItems : Started(k) => k \in Pending
          /\ \A k \in Pending : invoked[k] > 0 => \A j \in 1..k : j \in Dispatched)
  /\ [][ sem' > sem =>
           /\ sem' = sem + 1 /\ next' = next + 1
           /\ ~Started(next) /\ w'[next].pc = "spawned"
           /\ \A j \in 1..MaxItems : j # next => w'[j] = w[j]
           /\ \A j \in 1..(next - 1) : Started(j)
     ]_vars

\* C31 witness: completions out of input order: the second pending item has
\* returned while the first, dispatched before it, is still being invoked.
C31_Witness ==
  /\ cmd = "batch" /\ Len(toGenerate) = 2
  /\ Completed = {2} /\ w[1].pc = "invoking"

\* C32: a batch run with a concurrency bound of at least 1, whose
\* invocations and writes return and whose process is not killed,
\* terminates: the dispatch loop gets past every pending item, the wait for
\* the goroutines returns, and the run reaches its end after the one save of
\* the cache.
C32_BatchTerminates ==
  /\ (cmd = "batch" /\ pc = "dispatch" /\ flagConcurrency >= 1)
       ~> (cmd = "batch" /\ pc = "wait" /\ next > Len(toGenerate))
  /\ (cmd = "batch" /\ pc = "wait")
       ~> (cmd = "batch" /\ pc = "save" /\ \A k \in Pending : Finished(k))
  /\ (cmd = "batch" /\ pc = "save")
       ~> (cmd = "batch" /\ pc = "done" /\ saveCalls = 1)

\* C32 witness: a batch run with two pending items and one slot, in which
\* the dispatch loop had to wait for the slot, has saved and reached its end.
C32_Witness ==
  /\ cmd = "batch" /\ pc = "done" /\ saveCalls = 1
  /\ flagConcurrency = 1 /\ Len(toGenerate) = 2
  /\ \A k \in Pending : Finished(k)

\* The goroutines that hold their slot: dispatched, and the deferred release
\* has not run.  A goroutine has finished its work once it has run; wg.Done
\* comes after it.
Working     == { k \in 1..MaxItems : w[k].pc \notin {"idle", "released", "done"} }
NotDone     == { k \in 1..MaxItems : w[k].pc \notin {"idle", "done"} }
ExitPaths   == {"counting", "upserting"}

\* C33: in a batch run the number of tokens in sem is the number of
\* goroutines that were dispatched and have not finished their work, never
\* more than the goroutines the WaitGroup still counts; a token leaves sem
\* only by the release of one goroutine that has returned, one token per
\* goroutine, after an error as after a success; and no token is left when
\* every goroutine has finished.
C33_SlotAccounting ==
  /\ [](cmd = "batch" =>
          /\ sem = Cardinality(Working)
          /\ wg = Cardinality(NotDone)
          /\ sem <= flagConcurrency
          /\ ((\A k \in Pending : Finished(k)) => sem = 0)
          /\ (pc \in {"save", "done"} => sem = 0 /\ wg = 0))
  /\ [][ (cmd = "batch" /\ cmd' = "batch") =>
           /\ sem' < sem =>
                \E k \in Pending :
                  /\ w[k].pc = "returning" /\ w'[k].pc = "released"
                  /\ sem' = sem - 1
                  /\ \A j \in 1..MaxItems : j # k => w'[j] = w[j]
           /\ \A k \in 1..MaxItems :
                /\ (w[k].pc \in ExitPaths /\ w'[k].pc # w[k].pc) =>
                     (w'[k].pc = "returning" /\ sem' = sem)
                /\ (w[k].pc = "returning" /\ w'[k].pc # w[k].pc) =>
                     (w'[k].pc = "released" /\ sem' = sem - 1)
                /\ (w[k].pc = "released" /\ w'[k].pc # w[k].pc) =>
                     (w'[k].pc = "done" /\ sem' = sem)
     ]_vars

\* C33 witness: every goroutine of a batch run has finished, one after an
\* error and one after a success, and no token is left in sem.
C33_Witness ==
  /\ cmd = "batch" /\ pc = "wait" /\ sem = 0
  /\ \E j, k \in Pending : Finished(j) /\ Finished(k) /\ Errored(j) /\ Generated(k)

\* The input of validate has an error: the file is unreadable or no valid
\* YAML, holds no prompt, or holds an empty prompt.
HasInputError ==
  \/ vr.kind \in {"unreadable", "malformed"}
  \/ vr.kind = "parsed" /\ (Len(pf) = 0 \/ EmptyItems # {})

\* C34: validate ends with ExitInvalidInput exactly when the input has an
\* error, with and without --json, and the errors it reports are there
\* exactly then; duplicates alone leave the exit code at ExitSuccess.
C34_ValidateOutcome ==
  (cmd = "validate" /\ pc = "done") =>
    /\ (Len(vr.errors) > 0 <=> HasInputError)
    /\ (exitCode = ExitInvalidInput <=> HasInputError)
    /\ (~HasInputError => exitCode = ExitSuccess)

\* Items i and j of the file are the same pair: the same prompt text and the
\* same resolved model.
SamePair(i, j) ==
  /\ pf[i].prompt = pf[j].prompt
  /\ ResolveModel(pf[i]) = ResolveModel(pf[j])

\* C35: every duplicate warning of validate names an item and an earlier
\* item of the file with the same prompt text and the same resolved model.
C35_DuplicateMeansSamePair ==
  (cmd = "validate" /\ pc = "done" /\ vr.kind = "parsed") =>
    \A n \in 1..Len(vr.warnings) :
      LET wn == vr.warnings[n]
      IN  /\ wn.item \in Items /\ wn.of \in Items
          /\ wn.of < wn.item
          /\ SamePair(wn.item, wn.of)

\* The entry the run found for item i; 0 when there is none.
HitEntry(i) == Lookup(c, Hash(PromptOf(i), ModelOf(i)))

\* C36: whatever runs came before, killed ones included, every item a run
\* treats as a cache hit has an entry whose output file is on disk and holds
\* the whole image of a successful generation of the item's prompt and model.
C36_HitsAreWholeFiles ==
  cmd \in {"batch", "generate"} =>
    \A i \in RunItems :
      IsReported(i, "cached") =>
        /\ HitEntry(i) # 0
        /\ c[HitEntry(i)].outputFile \in files
        /\ image[c[HitEntry(i)].outputFile] = Whole(PromptOf(i), ModelOf(i))

====
